---- MODULE Spec2Model ----
(***************************************************************************)
(* Buffer-zone risk analysis of school_map (BufferAnalysisService).        *)
(*                                                                         *)
(* Numbers.  Lengths (totalRadius, zoneWidth, radiusKm) and coordinates    *)
(* are whole multiples of one common step, so the JavaScript doubles of    *)
(* the code are modelled by exact integers; quotients (zoneIndex /         *)
(* totalZones, vertex means) are exact fractions <<num, den>> with         *)
(* den > 0.  For the small integers involved the correctly rounded double  *)
(* quotient compares with the literals 0.6 and 0.8 exactly as the          *)
(* fraction does.                                                          *)
(*                                                                         *)
(* Geometry.  The turf.js calls are modelled by their contract on a flat   *)
(* chart whose unit is the length step: turf.buffer is the closed disc     *)
(* around the point, turf.difference the set difference of its two         *)
(* arguments (null when nothing is left; it may also throw), and           *)
(* turf.booleanPointInPolygon is membership.                               *)
(*                                                                         *)
(* Record linkage (HybridSchoolService.mergeSchools).  Coordinates are     *)
(* whole multiples of 0.0001 degrees; a name is the sequence of its        *)
(* characters.  NaN is a fraction with denominator 0.                      *)
(***************************************************************************)
EXTENDS Integers, Sequences, FiniteSets, TLC

VARIABLES centerPoint, config, schools, layerFeatures, differenceThrows, result,
          oficiales, osmSchools, merged,
          enabled, isLoading, bufferCenter, bufferAnalysisResult,
          showStatisticsPanel, isBufferMode, pending, issued, lastEvent,
          fetchKind, serverIndex, attempts, fetchState, contacted, fetched,
          returned

\* the fields of MapComponent besides schools, layerFeatures and the buffer
\* configuration; pending, issued and lastEvent describe the requests in
\* flight and the handler that ran last
mapVars == <<enabled, isLoading, bufferCenter, bufferAnalysisResult,
             showStatisticsPanel, isBufferMode, pending, issued, lastEvent>>

\* one fetch of OverpassService
fetchVars == <<fetchKind, serverIndex, attempts, fetchState, contacted, fetched>>

vars == <<centerPoint, config, schools, layerFeatures, differenceThrows, result,
          oficiales, osmSchools, merged, mapVars, fetchVars, returned>>

\* null / undefined, as a record so that it compares with every object
Null == [kind |-> "null"]

\* null for a pair of numbers
NoPoint == <<>>

\* MapComponent as constructed
MapConstructed ==
    /\ enabled = [type \in {"hospitals", "police"} |-> FALSE]
    /\ isLoading = FALSE
    /\ bufferCenter = NoPoint
    /\ bufferAnalysisResult = Null
    /\ showStatisticsPanel = FALSE
    /\ isBufferMode = FALSE
    /\ pending = {}
    /\ issued = 0
    /\ lastEvent = "constructor"

\* OverpassService before a fetch
FetchIdle ==
    /\ fetchKind = "none"
    /\ serverIndex = 0
    /\ attempts = 0
    /\ fetchState = "idle"
    /\ contacted = <<>>
    /\ fetched = Null

\* no call has returned
NothingReturned == returned = <<>>

(***************************************************************************)
(* Bounds of the model                                                     *)
(***************************************************************************)
MaxRadius == 5
MaxWidth == 3
MaxFeatures == 2
MaxSchools == 2
MaxElements == 2

(***************************************************************************)
(* Exact fractions                                                         *)
(***************************************************************************)
Frac(n, d) == <<n, d>>
FracSub(a, b) == <<a[1] * b[2] - b[1] * a[2], a[2] * b[2]>>
FracAdd(a, b) == <<a[1] * b[2] + b[1] * a[2], a[2] * b[2]>>
FracMul(a, b) == <<a[1] * b[1], a[2] * b[2]>>
FracLeq(a, b) == a[1] * b[2] <= b[1] * a[2]
FracLess(a, b) == a[1] * b[2] < b[1] * a[2]
FracEq(a, b) == a[1] * b[2] = b[1] * a[2]

RECURSIVE Gcd(_, _)
Gcd(a, b) == IF b = 0 THEN a ELSE Gcd(b, a % b)

Abs(a) == IF a < 0 THEN 0 - a ELSE a

\* the same number in lowest terms; NaN (denominator 0) is left alone
FracReduced(a) ==
    IF a[2] = 0 THEN a
    ELSE LET g == Gcd(Abs(a[1]), Abs(a[2])) IN <<a[1] \div g, a[2] \div g>>

Min(a, b) == IF a <= b THEN a ELSE b

\* Math.ceil(a / b) for positive b
CeilDiv(a, b) == (a + b - 1) \div b

RECURSIVE SumSeq(_)
SumSeq(s) == IF s = <<>> THEN 0 ELSE Head(s) + SumSeq(Tail(s))

\* Array.prototype.filter(...).length, given the outcome of the test for
\* every element
FilterLength(tests) == Cardinality({k \in 1..Len(tests) : tests[k]})

(***************************************************************************)
(* turf.js                                                                 *)
(***************************************************************************)
\* turf.point([x, y]): position in turf order <<lng, lat>>, as fractions
turfPoint(xy) == [x |-> xy[1], y |-> xy[2]]

\* turf.buffer(point, radius, {units: 'kilometers'})
turfBuffer(pt, radius) == [kind |-> "buffer", center |-> pt, radius |-> radius]

RECURSIVE booleanPointInPolygon(_, _)
booleanPointInPolygon(pt, polygon) ==
    IF polygon.kind = "buffer"
    THEN LET dx == FracSub(pt.x, polygon.center.x)
             dy == FracSub(pt.y, polygon.center.y)
         IN  FracLeq(FracAdd(FracMul(dx, dx), FracMul(dy, dy)),
                     Frac(polygon.radius * polygon.radius, 1))
    ELSE /\ booleanPointInPolygon(pt, polygon.outer)
         /\ ~booleanPointInPolygon(pt, polygon.inner)

\* the difference is empty when a disc is taken out of a disc it covers
DifferenceIsEmpty(outer, inner) ==
    /\ outer.kind = "buffer"
    /\ inner.kind = "buffer"
    /\ outer.center = inner.center
    /\ outer.radius <= inner.radius

\* turf.difference(featureCollection([outer, inner])) when it does not throw
turfDifference(outer, inner) ==
    IF DifferenceIsEmpty(outer, inner)
    THEN Null
    ELSE [kind |-> "difference", outer |-> outer, inner |-> inner]

(***************************************************************************)
(* BufferAnalysisService                                                   *)
(***************************************************************************)
RiskLevel == {"high", "medium", "low"}

\* the categories counted per zone; "schools" is passed separately
CountedLayers == {"hospitals", "police", "fire_stations", "risk_zones"}

\* a whole number as a fraction
Num(n) == Frac(n, 1)

\* layerFeatures.get(type) || []
LayerGet(features, type) ==
    IF type \in DOMAIN features THEN features[type] ELSE <<>>

\* variant: the boundary ratios 0.6 and 0.8 fall in the outer class
calculateRiskLevel_strict(zoneIndex, totalZones) ==
    LET ratio == Frac(zoneIndex, totalZones)
    IN  IF FracLess(ratio, Frac(6, 10)) THEN "high"
        ELSE IF FracLess(ratio, Frac(8, 10)) THEN "medium"
        ELSE "low"

\* variant: the high class ends at ratio 0.5
calculateRiskLevel_half(zoneIndex, totalZones) ==
    LET ratio == Frac(zoneIndex, totalZones)
    IN  IF FracLeq(ratio, Frac(5, 10)) THEN "high"
        ELSE IF FracLeq(ratio, Frac(8, 10)) THEN "medium"
        ELSE "low"

\* variant: every ratio above 0.6 is medium
calculateRiskLevel_noLow(zoneIndex, totalZones) ==
    LET ratio == Frac(zoneIndex, totalZones)
    IN  IF FracLeq(ratio, Frac(6, 10)) THEN "high"
        ELSE IF FracLeq(ratio, Frac(10, 10)) THEN "medium"
        ELSE "low"

calculateRiskLevel(zoneIndex, totalZones) ==
    LET ratio == Frac(zoneIndex, totalZones)
    IN  IF FracLeq(ratio, Frac(6, 10)) THEN "high"
        ELSE IF FracLeq(ratio, Frac(8, 10)) THEN "medium"
        ELSE "low"

getRiskColor(riskLevel) ==
    CASE riskLevel = "high" -> "#e74c3c"
      [] riskLevel = "medium" -> "#f39c12"
      [] riskLevel = "low" -> "#27ae60"

\* variant: the ratio term is added
getFillOpacity_plus(zoneIndex, totalZones) ==
    FracAdd(Frac(35, 100), FracMul(Frac(zoneIndex, totalZones), Frac(2, 10)))

getFillOpacity(zoneIndex, totalZones) ==
    FracSub(Frac(35, 100), FracMul(Frac(zoneIndex, totalZones), Frac(2, 10)))

\* variant: Math.floor instead of Math.ceil
numZonesOf_floor(cfg) == cfg.totalRadius \div cfg.zoneWidth

\* const numZones = Math.ceil(totalRadius / zoneWidth)
numZonesOf(cfg) == CeilDiv(cfg.totalRadius, cfg.zoneWidth)

\* variant: the radius is not clamped to totalRadius
zoneRadiusKm_unclamped(i, cfg) == i * cfg.zoneWidth

\* const radiusKm = Math.min(i * zoneWidth, totalRadius)
zoneRadiusKm(i, cfg) == Min(i * cfg.zoneWidth, cfg.totalRadius)

createBufferZones(center, cfg) ==
    LET numZones == numZonesOf(cfg)
    IN  [i \in 1..numZones |->
            LET radiusKm == zoneRadiusKm(i, cfg)
                riskLevel == calculateRiskLevel(i, numZones)
                point == turfPoint(<<Num(center[2]), Num(center[1])>>)
            IN  [id |-> i,
                 radiusKm |-> radiusKm,
                 riskLevel |-> riskLevel,
                 color |-> getRiskColor(riskLevel),
                 fillOpacity |-> getFillOpacity(i, numZones),
                 polygon |-> turfBuffer(point, radiusKm)]]

\* variant: the innermost buffer is subtracted instead of the preceding one
createRingPolygon_first(outerPolygon, innerPolygons, throws) ==
    IF Len(innerPolygons) = 0
    THEN outerPolygon
    ELSE LET innerPolygon == innerPolygons[1]
             difference == turfDifference(outerPolygon, innerPolygon)
         IN  IF throws THEN outerPolygon
             ELSE IF difference = Null THEN outerPolygon
             ELSE difference

\* variant: the catch branch returns the inner polygon
createRingPolygon_catchInner(outerPolygon, innerPolygons, throws) ==
    IF Len(innerPolygons) = 0
    THEN outerPolygon
    ELSE LET innerPolygon == innerPolygons[Len(innerPolygons)]
             difference == turfDifference(outerPolygon, innerPolygon)
         IN  IF throws THEN innerPolygon
             ELSE IF difference = Null THEN outerPolygon
             ELSE difference

\* throws: whether turf.difference throws in this call
createRingPolygon(outerPolygon, innerPolygons, throws) ==
    IF Len(innerPolygons) = 0
    THEN outerPolygon
    ELSE LET innerPolygon == innerPolygons[Len(innerPolygons)]
             difference == turfDifference(outerPolygon, innerPolygon)
         IN  IF throws THEN outerPolygon
             ELSE IF difference = Null THEN outerPolygon
             ELSE difference

\* vertex mean <<lat, lng>>; [0, 0] for a school without vertices
getSchoolCenter(school) ==
    IF school.polygon # Null /\ Len(school.polygon.coordinates) > 0
    THEN LET coords == school.polygon.coordinates
             sumLat == SumSeq([k \in 1..Len(coords) |-> coords[k][1]])
             sumLng == SumSeq([k \in 1..Len(coords) |-> coords[k][2]])
         IN  <<Frac(sumLat, Len(coords)), Frac(sumLng, Len(coords))>>
    ELSE <<Num(0), Num(0)>>

countPointsInPolygon(points, polygon) ==
    LET inside(point) ==
            booleanPointInPolygon(turfPoint(<<point[2], point[1]>>), polygon)
    IN  FilterLength([k \in 1..Len(points) |-> inside(points[k])])

countFeaturesInPolygon(features, polygon) ==
    LET inside(feature) ==
            booleanPointInPolygon(
                turfPoint(<<Num(feature.coordinates[2]),
                            Num(feature.coordinates[1])>>), polygon)
    IN  FilterLength([k \in 1..Len(features) |-> inside(features[k])])

\* variant: the total leaves out the risk zones
zoneStatistics_noRiskZones(zone, ringPolygon, schoolList, features) ==
    LET schoolsInZone ==
            countPointsInPolygon(
                [k \in 1..Len(schoolList) |-> getSchoolCenter(schoolList[k])],
                ringPolygon)
        hospitalsInZone ==
            countFeaturesInPolygon(LayerGet(features, "hospitals"), ringPolygon)
        policeInZone ==
            countFeaturesInPolygon(LayerGet(features, "police"), ringPolygon)
        fireStationsInZone ==
            countFeaturesInPolygon(LayerGet(features, "fire_stations"), ringPolygon)
        riskZonesInZone ==
            countFeaturesInPolygon(LayerGet(features, "risk_zones"), ringPolygon)
    IN  [zoneId |-> zone.id,
         radiusKm |-> zone.radiusKm,
         riskLevel |-> zone.riskLevel,
         schools |-> schoolsInZone,
         hospitals |-> hospitalsInZone,
         police |-> policeInZone,
         fireStations |-> fireStationsInZone,
         riskZones |-> riskZonesInZone,
         total |-> schoolsInZone + hospitalsInZone + policeInZone
                       + fireStationsInZone]

\* the body of the zones.map callback once the ring is known
zoneStatistics(zone, ringPolygon, schoolList, features) ==
    LET schoolsInZone ==
            countPointsInPolygon(
                [k \in 1..Len(schoolList) |-> getSchoolCenter(schoolList[k])],
                ringPolygon)
        hospitalsInZone ==
            countFeaturesInPolygon(LayerGet(features, "hospitals"), ringPolygon)
        policeInZone ==
            countFeaturesInPolygon(LayerGet(features, "police"), ringPolygon)
        fireStationsInZone ==
            countFeaturesInPolygon(LayerGet(features, "fire_stations"), ringPolygon)
        riskZonesInZone ==
            countFeaturesInPolygon(LayerGet(features, "risk_zones"), ringPolygon)
    IN  [zoneId |-> zone.id,
         radiusKm |-> zone.radiusKm,
         riskLevel |-> zone.riskLevel,
         schools |-> schoolsInZone,
         hospitals |-> hospitalsInZone,
         police |-> policeInZone,
         fireStations |-> fireStationsInZone,
         riskZones |-> riskZonesInZone,
         total |-> schoolsInZone + hospitalsInZone + policeInZone
                       + fireStationsInZone + riskZonesInZone]

\* variant: the entries are produced outermost zone first
calculateStatistics_reversed(zones, schoolList, features, throws) ==
    [m \in 1..Len(zones) |->
        LET k == Len(zones) + 1 - m
            prevZonePolygons == [j \in 1..(k - 1) |-> zones[j].polygon]
            ringPolygon ==
                createRingPolygon(zones[k].polygon, prevZonePolygons,
                                  k > 1 /\ throws[k])
        IN  zoneStatistics(zones[k], ringPolygon, schoolList, features)]

\* throws[k]: whether turf.difference throws while the ring of zone k is cut
calculateStatistics(zones, schoolList, features, throws) ==
    [k \in 1..Len(zones) |->
        LET prevZonePolygons == [j \in 1..(k - 1) |-> zones[j].polygon]
            ringPolygon ==
                createRingPolygon(zones[k].polygon, prevZonePolygons,
                                  k > 1 /\ throws[k])
        IN  zoneStatistics(zones[k], ringPolygon, schoolList, features)]

\* variant: the category totals are summed over the zones
analyzeBufferZones_zoneSums(center, schoolList, features, cfg, throws) ==
    LET zones == createBufferZones(center, cfg)
        statistics == calculateStatistics(zones, schoolList, features, throws)
        sumOf(category) ==
            SumSeq([k \in 1..Len(statistics) |-> statistics[k][category]])
        totalElements ==
            [schools |-> sumOf("schools"),
             hospitals |-> sumOf("hospitals"),
             police |-> sumOf("police"),
             fireStations |-> sumOf("fireStations"),
             riskZones |-> sumOf("riskZones")]
    IN  [centerPoint |-> center,
         zones |-> zones,
         statistics |-> statistics,
         totalElements |-> totalElements]

analyzeBufferZones(center, schoolList, features, cfg, throws) ==
    LET zones == createBufferZones(center, cfg)
        statistics == calculateStatistics(zones, schoolList, features, throws)
        totalElements ==
            [schools |-> Len(schoolList),
             hospitals |-> Len(LayerGet(features, "hospitals")),
             police |-> Len(LayerGet(features, "police")),
             fireStations |-> Len(LayerGet(features, "fire_stations")),
             riskZones |-> Len(LayerGet(features, "risk_zones"))]
    IN  [centerPoint |-> center,
         zones |-> zones,
         statistics |-> statistics,
         totalElements |-> totalElements]

\* isPointInZone(point, zone), point <<lat, lng>> as fractions
isPointInZone(point, zone) ==
    IF zone.polygon = Null THEN FALSE
    ELSE booleanPointInPolygon(turfPoint(<<point[2], point[1]>>), zone.polygon)

\* [...zones].sort((a, b) => a.radiusKm - b.radiusKm): a stable sort of a copy
RECURSIVE sortByRadiusKm(_)
sortByRadiusKm(zones) ==
    IF zones = <<>> THEN <<>>
    ELSE LET last == zones[Len(zones)]
             front == sortByRadiusKm(SubSeq(zones, 1, Len(zones) - 1))
         IN  SelectSeq(front, LAMBDA z : z.radiusKm <= last.radiusKm)
                 \o <<last>>
                 \o SelectSeq(front, LAMBDA z : z.radiusKm > last.radiusKm)

\* variant: the zones are tested in the order given
getZoneForPoint_unsorted(point, zones) ==
    LET sortedZones == zones
        hits == {k \in 1..Len(sortedZones) : isPointInZone(point, sortedZones[k])}
    IN  IF hits = {} THEN Null
        ELSE sortedZones[CHOOSE k \in hits : \A h \in hits : k <= h]

\* the first zone, by increasing radius, whose buffer holds the point
getZoneForPoint(point, zones) ==
    LET sortedZones == sortByRadiusKm(zones)
        hits == {k \in 1..Len(sortedZones) : isPointInZone(point, sortedZones[k])}
    IN  IF hits = {} THEN Null
        ELSE sortedZones[CHOOSE k \in hits : \A h \in hits : k <= h]

(***************************************************************************)
(* Inputs                                                                  *)
(***************************************************************************)
\* clicked centres <<lat, lng>>
Centers == {<<0, 0>>, <<0, 3>>}

\* positions <<lat, lng>> of layer features
FeaturePoints == <<<<0, 0>>, <<2, 1>>>>

\* school outlines: none, a two-vertex line, a closed square ring
SchoolPolygons ==
    << <<>>,
       << <<0, 1>>, <<0, 2>> >>,
       << <<1, 1>>, <<1, 3>>, <<3, 3>>, <<3, 1>>, <<1, 1>> >> >>

Items ==
    {<<"schools", n>> : n \in 1..Len(SchoolPolygons)}
        \cup {<<type, n>> : type \in CountedLayers, n \in 1..Len(FeaturePoints)}

ItemLists == UNION {[1..n -> Items] : n \in 0..MaxFeatures}

School(k, n) ==
    [id |-> k, name |-> k, polygon |-> [coordinates |-> SchoolPolygons[n]]]

LayerFeature(k, type, n) ==
    [id |-> k, type |-> type, coordinates |-> FeaturePoints[n]]

\* the candidates chosen for one category, in list order
RECURSIVE Chosen(_, _)
Chosen(items, type) ==
    IF items = <<>> THEN <<>>
    ELSE (IF Head(items)[1] = type THEN <<Head(items)[2]>> ELSE <<>>)
         \o Chosen(Tail(items), type)

\* the objects of one category; ids number the objects of the category
Placed(items, type) ==
    LET chosen == Chosen(items, type)
    IN  [k \in 1..Len(chosen) |->
            IF type = "schools" THEN School(k, chosen[k])
            ELSE LayerFeature(k, type, chosen[k])]

\* the Map of layer features; a layer without features has an empty entry
\* when emptyEntries, and no entry otherwise
LayerMap(items, emptyEntries) ==
    LET present == {type \in CountedLayers :
                        emptyEntries \/ Placed(items, type) # <<>>}
    IN  [type \in present |-> Placed(items, type)]

Init ==
    /\ centerPoint \in Centers
    /\ config \in [totalRadius : 1..MaxRadius, zoneWidth : 1..MaxWidth]
    /\ \E items \in ItemLists, emptyEntries \in BOOLEAN :
          /\ schools = Placed(items, "schools")
          /\ layerFeatures = LayerMap(items, emptyEntries)
    /\ differenceThrows = <<>>
    /\ result = Null
    /\ oficiales = <<>>
    /\ osmSchools = <<>>
    /\ merged = Null
    /\ MapConstructed
    /\ FetchIdle
    /\ NothingReturned

\* one call of analyzeBufferZones; the environment decides, for every
\* turf.difference call, whether it throws
AnalyzeBufferZones ==
    /\ result = Null
    /\ \E throws \in [2..numZonesOf(config) -> BOOLEAN] :
          /\ differenceThrows' = throws
          /\ result' = analyzeBufferZones(centerPoint, schools, layerFeatures,
                                          config, throws)
    /\ UNCHANGED <<centerPoint, config, schools, layerFeatures>>
    /\ UNCHANGED <<oficiales, osmSchools, merged>>
    /\ UNCHANGED <<mapVars, fetchVars, returned>>

Next == AnalyzeBufferZones

Spec == Init /\ [][Next]_vars

(***************************************************************************)
(* HybridSchoolService                                                     *)
(***************************************************************************)
\* const maxDistance = 0.002, in units of 0.0001 degrees
maxDistance == 20

\* String.prototype.toLowerCase, character by character
LowerCaseChar(c) ==
    CASE c = "A" -> "a"
      [] c = "B" -> "b"
      [] c = "A_acute" -> "a_acute"
      [] OTHER -> c

toLowerCase(name) == [k \in 1..Len(name) |-> LowerCaseChar(name[k])]

\* String.prototype.normalize('NFD'): an accented letter becomes the letter
\* followed by its combining mark
RECURSIVE normalizeNFD(_)
normalizeNFD(name) ==
    IF name = <<>> THEN <<>>
    ELSE (CASE Head(name) = "a_acute" -> <<"a", "combining_acute">>
            [] Head(name) = "A_acute" -> <<"A", "combining_acute">>
            [] OTHER -> <<Head(name)>>)
         \o normalizeNFD(Tail(name))

\* the characters of [̀-ͯ]
CombiningMarks == {"combining_acute"}

\* the characters of [a-z0-9] that occur in the names of the model
LowerAlnum == {"a", "b", "c", "d", "1"}

\* replace(/[̀-ͯ]/g, '')
removeMarks(name) == SelectSeq(name, LAMBDA c : c \notin CombiningMarks)

\* replace(/[^a-z0-9]/g, '')
removeNonAlnum(name) == SelectSeq(name, LAMBDA c : c \in LowerAlnum)

\* variant: the name is not decomposed before the filters
normalizeSchoolName_noNFD(name) ==
    removeNonAlnum(removeMarks(toLowerCase(name)))

normalizeSchoolName(name) ==
    removeNonAlnum(removeMarks(normalizeNFD(toLowerCase(name))))

\* vertex mean; NaN (0/0) for an empty list
getCenter(coords) ==
    LET sum1 == SumSeq([k \in 1..Len(coords) |-> coords[k][1]])
        sum2 == SumSeq([k \in 1..Len(coords) |-> coords[k][2]])
    IN  <<FracReduced(Frac(sum1, Len(coords))),
          FracReduced(Frac(sum2, Len(coords)))>>

\* the square of Math.sqrt(dx * dx + dy * dy); NaN when a coordinate is NaN
calculateDistance(coord1, coord2) ==
    LET dx == FracReduced(FracSub(coord1[1], coord2[1]))
        dy == FracReduced(FracSub(coord1[2], coord2[2]))
    IN  FracReduced(FracAdd(FracMul(dx, dx), FracMul(dy, dy)))

\* distance < limit, for the squared distance; false when it is NaN
DistanceBelow(distanceSquared, limit) ==
    /\ distanceSquared[2] # 0
    /\ FracLess(distanceSquared, Num(limit * limit))

\* variant: the OSM school at the least distance among those within maxDistance
findNearestOSM_closest(oficial, osmList) ==
    LET oficialCenter == getCenter(oficial.polygon.coordinates)
        dist(k) == calculateDistance(oficialCenter,
                                     getCenter(osmList[k].polygon.coordinates))
        hits == {k \in 1..Len(osmList) : DistanceBelow(dist(k), maxDistance)}
    IN  IF hits = {} THEN Null
        ELSE osmList[CHOOSE k \in hits :
                        \A h \in hits :
                            \/ FracLess(dist(k), dist(h))
                            \/ FracEq(dist(k), dist(h)) /\ k <= h]

\* the first OSM school, in list order, within maxDistance; null if none
findNearestOSM(oficial, osmList) ==
    LET oficialCenter == getCenter(oficial.polygon.coordinates)
        near(k) ==
            DistanceBelow(
                calculateDistance(oficialCenter,
                                  getCenter(osmList[k].polygon.coordinates)),
                maxDistance)
        hits == {k \in 1..Len(osmList) : near(k)}
    IN  IF hits = {} THEN Null
        ELSE osmList[CHOOSE k \in hits : \A h \in hits : k <= h]

\* variant: a match needs more than 6 vertices
enrich_moreThanSix(oficial, osmList) ==
    LET osmMatch == findNearestOSM(oficial, osmList)
    IN  IF osmMatch # Null /\ Len(osmMatch.polygon.coordinates) > 6
        THEN [oficial EXCEPT !.polygon = osmMatch.polygon,
                             !.additionalData.source = "hybrid"]
        ELSE oficial

\* the oficiales.map callback
enrich(oficial, osmList) ==
    LET osmMatch == findNearestOSM(oficial, osmList)
    IN  IF osmMatch # Null /\ Len(osmMatch.polygon.coordinates) > 5
        THEN [oficial EXCEPT !.polygon = osmMatch.polygon,
                             !.additionalData.source = "hybrid"]
        ELSE oficial

\* variant: an OSM school matched by position is not appended
mergeSchools_consumed(oficialList, osmList) ==
    LET mergedList == [k \in 1..Len(oficialList) |-> enrich(oficialList[k], osmList)]
        oficialNames ==
            {normalizeSchoolName(oficialList[k].name) : k \in 1..Len(oficialList)}
        matches ==
            {findNearestOSM(oficialList[k], osmList) : k \in 1..Len(oficialList)}
        additionalOSM ==
            SelectSeq(osmList,
                      LAMBDA osm : /\ normalizeSchoolName(osm.name) \notin oficialNames
                                   /\ osm \notin matches)
    IN  mergedList \o additionalOSM

\* variant: the appended OSM schools come first
mergeSchools_osmFirst(oficialList, osmList) ==
    LET mergedList == [k \in 1..Len(oficialList) |-> enrich(oficialList[k], osmList)]
        oficialNames ==
            {normalizeSchoolName(oficialList[k].name) : k \in 1..Len(oficialList)}
        additionalOSM ==
            SelectSeq(osmList,
                      LAMBDA osm : normalizeSchoolName(osm.name) \notin oficialNames)
    IN  additionalOSM \o mergedList

\* variant: official schools without a match are left out
mergeSchools_matchedOnly(oficialList, osmList) ==
    LET mergedList ==
            [k \in 1..Len(oficialList) |-> enrich(oficialList[k], osmList)]
        oficialNames ==
            {normalizeSchoolName(oficialList[k].name) : k \in 1..Len(oficialList)}
        additionalOSM ==
            SelectSeq(osmList,
                      LAMBDA osm : normalizeSchoolName(osm.name) \notin oficialNames)
    IN  SelectSeq(mergedList, LAMBDA school : school.additionalData.source = "hybrid")
            \o additionalOSM

mergeSchools(oficialList, osmList) ==
    LET mergedList == [k \in 1..Len(oficialList) |-> enrich(oficialList[k], osmList)]
        oficialNames ==
            {normalizeSchoolName(oficialList[k].name) : k \in 1..Len(oficialList)}
        additionalOSM ==
            SelectSeq(osmList,
                      LAMBDA osm : normalizeSchoolName(osm.name) \notin oficialNames)
    IN  mergedList \o additionalOSM

(***************************************************************************)
(* Inputs of mergeSchools                                                  *)
(***************************************************************************)
\* "Ab", "á B", "c1", "d"
SchoolNames ==
    << <<"A", "b">>, <<"a_acute", "space", "B">>, <<"c", "1">>, <<"d">> >>

\* createPointPolygon(lat, lon) of IdecorService, offset 0.0005 degrees
createPointPolygon(lat, lon) ==
    << <<lat + 5, lon - 5>>, <<lat + 5, lon + 5>>, <<lat - 5, lon + 5>>,
       <<lat - 5, lon - 5>>, <<lat + 5, lon - 5>> >>

\* a traced outline of six vertices whose vertex mean is <<lat + 11, -1>>
Outline(lat) ==
    << <<lat + 8, -3>>, <<lat + 13, -3>>, <<lat + 14, 0>>, <<lat + 12, 2>>,
       <<lat + 11, 1>>, <<lat + 8, -3>> >>

\* outlines of official schools: point squares at <<0, 0>> (vertex mean
\* <<1, -1>>) and far away, and no vertices
OficialPolygons ==
    << createPointPolygon(0, 0), createPointPolygon(0, 200), <<>> >>

\* outlines of OSM schools: six vertices 0.001 degrees from <<1, -1>>, a
\* closed triangle with vertex mean <<1, -1>>, six vertices exactly 0.002
\* degrees from <<1, -1>>, and no vertices
OsmPolygons ==
    << Outline(0),
       << <<0, -2>>, <<4, -2>>, <<0, 2>>, <<0, -2>> >>,
       Outline(10),
       <<>> >>

OficialChoices == {<<n, g>> : n \in {1, 3}, g \in 1..Len(OficialPolygons)}

OsmChoices == {<<n, g>> : n \in {2, 4}, g \in 1..Len(OsmPolygons)}

OficialSchool(k, choice) ==
    [id |-> <<"idecor", k>>,
     name |-> SchoolNames[choice[1]],
     polygon |-> [coordinates |-> OficialPolygons[choice[2]]],
     additionalData |-> [source |-> "idecor"]]

OsmSchool(k, choice) ==
    [id |-> <<"osm", k>>,
     name |-> SchoolNames[choice[1]],
     polygon |-> [coordinates |-> OsmPolygons[choice[2]]],
     additionalData |-> [source |-> "osm"]]

InitMerge ==
    /\ \E n \in 0..MaxSchools : \E choices \in [1..n -> OficialChoices] :
          oficiales = [k \in 1..n |-> OficialSchool(k, choices[k])]
    /\ \E n \in 0..MaxSchools : \E choices \in [1..n -> OsmChoices] :
          osmSchools = [k \in 1..n |-> OsmSchool(k, choices[k])]
    /\ merged = Null
    /\ centerPoint = <<0, 0>>
    /\ config = [totalRadius |-> 5, zoneWidth |-> 1]
    /\ schools = <<>>
    /\ layerFeatures = <<>>
    /\ differenceThrows = <<>>
    /\ result = Null
    /\ MapConstructed
    /\ FetchIdle
    /\ NothingReturned

\* one call of mergeSchools
MergeSchools ==
    /\ merged = Null
    /\ merged' = [schools |-> mergeSchools(oficiales, osmSchools)]
    /\ UNCHANGED <<oficiales, osmSchools>>
    /\ UNCHANGED <<centerPoint, config, schools, layerFeatures,
                   differenceThrows, result>>
    /\ UNCHANGED <<mapVars, fetchVars, returned>>

NextMerge == MergeSchools

SpecMerge == InitMerge /\ [][NextMerge]_vars

(***************************************************************************)
(* OverpassService                                                         *)
(***************************************************************************)
overpassServers ==
    << "https://overpass.kumi.systems/api/interpreter",
       "https://overpass-api.de/api/interpreter",
       "https://maps.mail.ru/osm/tools/overpass/api/interpreter" >>

\* retry({ count: 2, ... })
retryCount == 2

\* tags.name || 'Escuela sin nombre'; a missing name is the empty string
nameOrDefault(name) == IF name = <<>> THEN <<"Escuela sin nombre">> ELSE name

\* the map callback of transformToSchools for one element with a geometry:
\* null below 3 points, the ring closed otherwise
elementToSchool(element) ==
    LET coordinates == element.geometry
        first == coordinates[1]
        last == coordinates[Len(coordinates)]
        closed == IF first[1] # last[1] \/ first[2] # last[2]
                  THEN Append(coordinates, <<first[1], first[2]>>)
                  ELSE coordinates
    IN  IF Len(coordinates) < 3 THEN Null
        ELSE [id |-> <<"osm", element.id>>,
              name |-> nameOrDefault(element.name),
              polygon |-> [coordinates |-> closed],
              additionalData |-> [source |-> "osm"]]

\* variant: shapes of fewer than 3 distinct points are dropped as well
transformToSchools_distinct(response) ==
    IF response = Null THEN <<>>
    ELSE LET withGeometry ==
                 SelectSeq(response.elements,
                           LAMBDA element : /\ element.geometry # Null
                                            /\ Len(element.geometry.points) > 0)
             mapped ==
                 [k \in 1..Len(withGeometry) |->
                     LET element == [id |-> withGeometry[k].id,
                                     name |-> withGeometry[k].name,
                                     geometry |-> withGeometry[k].geometry.points]
                     IN  IF Cardinality({element.geometry[m] :
                                            m \in 1..Len(element.geometry)}) < 3
                         THEN Null
                         ELSE elementToSchool(element)]
         IN  SelectSeq(mapped, LAMBDA school : school # Null)

\* response: null when the body has no elements, else [elements |-> ...];
\* the geometry of an element is null or [points |-> ...]
transformToSchools(response) ==
    IF response = Null THEN <<>>
    ELSE LET withGeometry ==
                 SelectSeq(response.elements,
                           LAMBDA element : /\ element.geometry # Null
                                            /\ Len(element.geometry.points) > 0)
             mapped ==
                 [k \in 1..Len(withGeometry) |->
                     elementToSchool([id |-> withGeometry[k].id,
                                      name |-> withGeometry[k].name,
                                      geometry |-> withGeometry[k].geometry.points])]
         IN  SelectSeq(mapped, LAMBDA school : school # Null)

\* the map callback of transformToLayerFeatures: a node has lat and lon, any
\* other element its center, if any
elementToFeature(element, layerType) ==
    IF element.type = "node"
    THEN [id |-> <<"osm", element.type, element.id>>,
          type |-> layerType,
          coordinates |-> <<element.lat, element.lon>>]
    ELSE IF element.center # Null
    THEN [id |-> <<"osm", element.type, element.id>>,
          type |-> layerType,
          coordinates |-> <<element.center.lat, element.center.lon>>]
    ELSE Null

transformToLayerFeatures(response, layerType) ==
    IF response = Null THEN <<>>
    ELSE SelectSeq([k \in 1..Len(response.elements) |->
                       elementToFeature(response.elements[k], layerType)],
                   LAMBDA feature : feature # Null)

\* the shapes an Overpass way can have: no geometry, no point, two points,
\* an open triangle, a closed line there and back, a closed triangle
Geometries ==
    << Null,
       [points |-> <<>>],
       [points |-> << <<0, 0>>, <<0, 1>> >>],
       [points |-> << <<0, 0>>, <<0, 1>>, <<1, 0>> >>],
       [points |-> << <<0, 0>>, <<0, 1>>, <<0, 0>> >>],
       [points |-> << <<0, 0>>, <<0, 1>>, <<1, 0>>, <<0, 0>> >>] >>

\* element k of a schools response, with shape g; the second shape has no name
SchoolElement(k, g) ==
    [id |-> k,
     name |-> IF g = 2 THEN <<>> ELSE <<"d">>,
     geometry |-> Geometries[g]]

\* element k of an amenities response: a node, a way with a center, a way
\* without one
AmenityElement(k, g) ==
    CASE g = 1 -> [type |-> "node", id |-> k, lat |-> 0, lon |-> 0]
      [] g = 2 -> [type |-> "way", id |-> k, center |-> [lat |-> 2, lon |-> 1]]
      [] g = 3 -> [type |-> "way", id |-> k, center |-> Null]

\* the response bodies a server can send
Responses(kind) ==
    LET shapes == IF kind = "schools" THEN Len(Geometries) ELSE 3
    IN  {Null} \cup
        {[elements |-> [k \in DOMAIN choice |->
                           IF kind = "schools" THEN SchoolElement(k, choice[k])
                           ELSE AmenityElement(k, choice[k])]] :
            choice \in UNION {[1..n -> 1..shapes] : n \in 0..MaxElements}}

InitFetch ==
    /\ FetchIdle
    /\ MapConstructed
    /\ NothingReturned
    /\ centerPoint = <<0, 0>>
    /\ config = [totalRadius |-> 5, zoneWidth |-> 1]
    /\ schools = <<>>
    /\ layerFeatures = <<>>
    /\ differenceThrows = <<>>
    /\ result = Null
    /\ oficiales = <<>>
    /\ osmSchools = <<>>
    /\ merged = Null

\* http.post to the server at index: the subscription of tryServer and
\* tryAmenityServer, or the end of the list
tryServer(index) ==
    IF index >= Len(overpassServers)
    THEN /\ fetchState' = "done"
         /\ fetched' = [value |-> <<>>, server |-> -1]
         /\ UNCHANGED <<serverIndex, attempts, contacted>>
    ELSE /\ fetchState' = "posted"
         /\ serverIndex' = index
         /\ attempts' = 1
         /\ contacted' = Append(contacted, index)
         /\ UNCHANGED fetched

\* getSchoolsInCordoba() and getAmenities('police', 'police')
StartFetch ==
    /\ fetchState = "idle"
    /\ fetchKind' \in {"schools", "amenities"}
    /\ tryServer(0)

\* the server answers: the body is transformed and the fetch ends
ResponseArrives ==
    /\ fetchState = "posted"
    /\ \E response \in Responses(fetchKind) :
          fetched' = [value |-> IF fetchKind = "schools"
                                THEN transformToSchools(response)
                                ELSE transformToLayerFeatures(response, "police"),
                      server |-> serverIndex]
    /\ fetchState' = "done"
    /\ UNCHANGED <<fetchKind, serverIndex, attempts, contacted>>

\* variant: the next server is tried without a retry
RequestFails_noRetry ==
    /\ fetchState = "posted"
    /\ tryServer(serverIndex + 1)
    /\ UNCHANGED fetchKind

\* the request fails: retry after a delay while retries are left, else
\* catchError moves on to the next server
RequestFails ==
    /\ fetchState = "posted"
    /\ IF attempts <= retryCount
       THEN /\ fetchState' = "delay"
            /\ UNCHANGED <<serverIndex, attempts, contacted, fetched>>
       ELSE tryServer(serverIndex + 1)
    /\ UNCHANGED fetchKind

\* timer(1000 * retryCount) fires and the request is sent again
RetryTimer ==
    /\ fetchState = "delay"
    /\ fetchState' = "posted"
    /\ attempts' = attempts + 1
    /\ contacted' = Append(contacted, serverIndex)
    /\ UNCHANGED <<fetchKind, serverIndex, fetched>>

FetchStep ==
    \/ StartFetch
    \/ ResponseArrives
    \/ RequestFails
    \/ RetryTimer

NextFetch ==
    /\ FetchStep
    /\ UNCHANGED <<centerPoint, config, schools, layerFeatures,
                   differenceThrows, result>>
    /\ UNCHANGED <<oficiales, osmSchools, merged, mapVars, returned>>

SpecFetch == InitFetch /\ [][NextFetch]_vars

\* every request is answered or fails, and every timer fires
SpecFetchFair ==
    /\ SpecFetch
    /\ WF_vars(NextFetch)

(***************************************************************************)
(* MapComponent                                                            *)
(***************************************************************************)
\* requests one component instance may start
MaxRequests == 3

\* the layers of the panel besides "schools"
Layers == {"hospitals", "police"}

\* layerMappings[layerType].wfsLayer is not empty
hasWfsLayer(layerType) == layerType # "police"

\* bufferConfig as constructed, and the values the sliders are moved to
BufferConfigs ==
    {[totalRadius |-> 5, zoneWidth |-> 1],
     [totalRadius |-> MaxRadius, zoneWidth |-> MaxWidth]}

\* turf.difference cuts every ring of the component's analyses; the
\* fallback of a failed cut is exercised by AnalyzeBufferZones
NoThrows(cfg) == [k \in 2..numZonesOf(cfg) |-> FALSE]

\* what getSchoolsCombined() emits
SchoolAnswers == {<<School(1, 3)>>}

\* what a provider emits for one layer
LayerAnswers(layerType) == {<<>>, <<LayerFeature(1, layerType, 1)>>}

\* IdecorLayersService.getLayerFeatures: nothing for a layer without a WFS
\* layer, else the parsed response, or [] from catchError
getLayerFeatures(layerType) ==
    IF ~hasWfsLayer(layerType) THEN {<<>>} ELSE LayerAnswers(layerType)

\* IdecorLayersService.getAllLayers: one entry per requested layer
getAllLayers(enabledLayers) ==
    {layerMap \in [enabledLayers -> UNION {getLayerFeatures(type) : type \in enabledLayers}] :
        \A type \in enabledLayers : layerMap[type] \in getLayerFeatures(type)}

\* features.set(type, list)
MapSet(features, type, list) ==
    [t \in DOMAIN features \cup {type} |->
        IF t = type THEN list ELSE features[t]]

\* layerMap.forEach((features, type) => layerFeatures.set(type, features))
MapSetAll(features, layerMap) ==
    [t \in DOMAIN features \cup DOMAIN layerMap |->
        IF t \in DOMAIN layerMap THEN layerMap[t] ELSE features[t]]

\* features.delete(type)
MapDelete(features, type) == [t \in DOMAIN features \ {type} |-> features[t]]

\* the subscriptions for the same data that have not emitted
Alike(kind, layers) == {r \in pending : r.kind = kind /\ r.layers = layers}

\* a new subscription, numbered among those alike
Request(kind, layers) ==
    [id |-> Cardinality(Alike(kind, layers)) + 1, kind |-> kind,
     layers |-> layers]

\* a subscription that emits next: those alike are interchangeable, the
\* last numbered stands for them
Emits(request) ==
    /\ request \in pending
    /\ request.id = Cardinality(Alike(request.kind, request.layers))

\* between ngOnInit and ngOnDestroy
Alive == lastEvent \notin {"constructor", "ngOnDestroy"}

InitMap ==
    /\ MapConstructed
    /\ FetchIdle
    /\ NothingReturned
    /\ centerPoint = <<0, 0>>
    /\ config = [totalRadius |-> 5, zoneWidth |-> 1]
    /\ schools = <<>>
    /\ layerFeatures = <<>>
    /\ differenceThrows = <<>>
    /\ result = Null
    /\ oficiales = <<>>
    /\ osmSchools = <<>>
    /\ merged = Null

\* variant: the analysis runs without a centre
performBufferAnalysis_noGuard(center, schoolList, features, cfg) ==
    /\ bufferAnalysisResult' =
          analyzeBufferZones(IF center = NoPoint THEN <<0, 0>> ELSE center,
                             schoolList, features, cfg, NoThrows(cfg))
    /\ showStatisticsPanel' = TRUE

\* performBufferAnalysis(), with the fields as they are when it is called
performBufferAnalysis(center, schoolList, features, cfg) ==
    IF center = NoPoint
    THEN UNCHANGED <<bufferAnalysisResult, showStatisticsPanel>>
    ELSE /\ bufferAnalysisResult' =
               analyzeBufferZones(center, schoolList, features, cfg,
                                  NoThrows(cfg))
         /\ showStatisticsPanel' = TRUE

\* clearBufferAnalysis()
clearBufferAnalysis ==
    /\ bufferAnalysisResult' = Null
    /\ showStatisticsPanel' = FALSE
    /\ bufferCenter' = NoPoint
    /\ isBufferMode' = FALSE

\* ngOnInit(): loadSchools()
NgOnInit ==
    /\ lastEvent = "constructor"
    /\ issued < MaxRequests
    /\ isLoading' = TRUE
    /\ pending' = pending \cup {Request("schools", {})}
    /\ issued' = issued + 1
    /\ lastEvent' = "ngOnInit"
    /\ UNCHANGED <<enabled, bufferCenter, bufferAnalysisResult,
                   showStatisticsPanel, isBufferMode>>
    /\ UNCHANGED <<config, schools, layerFeatures>>

\* next of loadSchools()
SchoolsResponse ==
    /\ Alive
    /\ \E request \in pending :
          /\ Emits(request)
          /\ request.kind = "schools"
          /\ pending' = pending \ {request}
    /\ schools' \in SchoolAnswers
    /\ isLoading' = FALSE
    /\ lastEvent' = "schoolsResponse"
    /\ UNCHANGED <<enabled, bufferCenter, bufferAnalysisResult,
                   showStatisticsPanel, isBufferMode, issued>>
    /\ UNCHANGED <<config, layerFeatures>>

\* toggleLayer(layerConfig) for a layer besides "schools":
\* loadAdditionalLayer removes the layer or requests it
ToggleLayer(layerType) ==
    /\ Alive
    /\ enabled' = [enabled EXCEPT ![layerType] = ~enabled[layerType]]
    /\ IF enabled[layerType]
       THEN /\ layerFeatures' = MapDelete(layerFeatures, layerType)
            /\ UNCHANGED <<isLoading, pending, issued>>
       ELSE /\ issued < MaxRequests
            /\ isLoading' = TRUE
            /\ pending' = pending \cup {Request("layer", {layerType})}
            /\ issued' = issued + 1
            /\ UNCHANGED layerFeatures
    /\ lastEvent' = "toggleLayer"
    /\ UNCHANGED <<bufferCenter, bufferAnalysisResult, showStatisticsPanel,
                   isBufferMode>>
    /\ UNCHANGED <<config, schools>>

\* variant: the analysis is not updated when a layer arrives
LayerResponse_noUpdate ==
    /\ Alive
    /\ \E request \in pending :
          /\ Emits(request)
          /\ request.kind = "layer"
          /\ pending' = pending \ {request}
          /\ \E type \in request.layers :
                \E features \in LayerAnswers(type) :
                    layerFeatures' = MapSet(layerFeatures, type, features)
    /\ isLoading' = FALSE
    /\ lastEvent' = "layerResponse"
    /\ UNCHANGED <<enabled, bufferCenter, isBufferMode, issued>>
    /\ UNCHANGED <<bufferAnalysisResult, showStatisticsPanel>>
    /\ UNCHANGED <<config, schools>>

\* next of loadAdditionalLayer: getAmenities for "police",
\* getLayerFeatures for the other layers
LayerResponse ==
    /\ Alive
    /\ \E request \in pending :
          /\ Emits(request)
          /\ request.kind = "layer"
          /\ pending' = pending \ {request}
          /\ \E type \in request.layers :
                \E features \in LayerAnswers(type) :
                    layerFeatures' = MapSet(layerFeatures, type, features)
    /\ isLoading' = FALSE
    /\ performBufferAnalysis(bufferCenter, schools, layerFeatures', config)
    /\ lastEvent' = "layerResponse"
    /\ UNCHANGED <<enabled, bufferCenter, isBufferMode, issued>>
    /\ UNCHANGED <<config, schools>>

\* toggleBufferMode()
ToggleBufferMode ==
    /\ Alive
    /\ IF isBufferMode
       THEN clearBufferAnalysis
       ELSE /\ isBufferMode' = TRUE
            /\ UNCHANGED <<bufferCenter, bufferAnalysisResult,
                           showStatisticsPanel>>
    /\ lastEvent' = "toggleBufferMode"
    /\ UNCHANGED <<enabled, isLoading, pending, issued>>
    /\ UNCHANGED <<config, schools, layerFeatures>>

\* a click on the map in buffer mode: createBufferAnalysis(center) and
\* loadAllEnabledLayersForAnalysis(); forkJoin emits inside the call when
\* no requested layer has a WFS layer
MapClick(center) ==
    /\ Alive
    /\ isBufferMode
    /\ bufferCenter' = center
    /\ LET enabledLayerTypes == {type \in Layers : enabled[type]}
       IN  IF enabledLayerTypes = {}
           THEN /\ performBufferAnalysis(center, schools, layerFeatures, config)
                /\ UNCHANGED <<isLoading, pending, issued, layerFeatures>>
           ELSE IF \A type \in enabledLayerTypes : ~hasWfsLayer(type)
           THEN /\ \E layerMap \in getAllLayers(enabledLayerTypes) :
                      layerFeatures' = MapSetAll(layerFeatures, layerMap)
                /\ isLoading' = FALSE
                /\ performBufferAnalysis(center, schools, layerFeatures', config)
                /\ UNCHANGED <<pending, issued>>
           ELSE /\ issued < MaxRequests
                /\ isLoading' = TRUE
                /\ pending' = pending \cup {Request("analysis", enabledLayerTypes)}
                /\ issued' = issued + 1
                /\ UNCHANGED <<layerFeatures, bufferAnalysisResult,
                               showStatisticsPanel>>
    /\ lastEvent' = "mapClick"
    /\ UNCHANGED <<enabled, isBufferMode>>
    /\ UNCHANGED <<config, schools>>

\* next of loadAllEnabledLayersForAnalysis()
AnalysisResponse ==
    /\ Alive
    /\ \E request \in pending :
          /\ Emits(request)
          /\ request.kind = "analysis"
          /\ pending' = pending \ {request}
          /\ \E layerMap \in getAllLayers(request.layers) :
                layerFeatures' = MapSetAll(layerFeatures, layerMap)
    /\ isLoading' = FALSE
    /\ performBufferAnalysis(bufferCenter, schools, layerFeatures', config)
    /\ lastEvent' = "analysisResponse"
    /\ UNCHANGED <<enabled, bufferCenter, isBufferMode, issued>>
    /\ UNCHANGED <<config, schools>>

\* a slider moves, then onBufferConfigChange()
OnBufferConfigChange(cfg) ==
    /\ Alive
    /\ cfg # config
    /\ config' = cfg
    /\ performBufferAnalysis(bufferCenter, schools, layerFeatures, cfg)
    /\ lastEvent' = "onBufferConfigChange"
    /\ UNCHANGED <<enabled, isLoading, bufferCenter, isBufferMode, pending,
                   issued>>
    /\ UNCHANGED <<schools, layerFeatures>>

\* clearBufferAnalysis() from the panel
ClearBufferAnalysis ==
    /\ Alive
    /\ clearBufferAnalysis
    /\ lastEvent' = "clearBufferAnalysis"
    /\ UNCHANGED <<enabled, isLoading, pending, issued>>
    /\ UNCHANGED <<config, schools, layerFeatures>>

\* onStatisticsPanelClose(), the close event of the panel that is shown
OnStatisticsPanelClose ==
    /\ Alive
    /\ showStatisticsPanel
    /\ showStatisticsPanel' = FALSE
    /\ lastEvent' = "onStatisticsPanelClose"
    /\ UNCHANGED <<enabled, isLoading, bufferCenter, bufferAnalysisResult,
                   isBufferMode, pending, issued>>
    /\ UNCHANGED <<config, schools, layerFeatures>>

\* ngOnDestroy(): takeUntil(destroy$) ends every subscription
NgOnDestroy ==
    /\ Alive
    /\ pending' = {}
    /\ lastEvent' = "ngOnDestroy"
    /\ UNCHANGED <<enabled, isLoading, bufferCenter, bufferAnalysisResult,
                   showStatisticsPanel, isBufferMode, issued>>
    /\ UNCHANGED <<config, schools, layerFeatures>>

MapStep ==
    \/ NgOnInit
    \/ SchoolsResponse
    \/ \E layerType \in Layers : ToggleLayer(layerType)
    \/ LayerResponse
    \/ ToggleBufferMode
    \/ \E center \in Centers : MapClick(center)
    \/ AnalysisResponse
    \/ \E cfg \in BufferConfigs : OnBufferConfigChange(cfg)
    \/ ClearBufferAnalysis
    \/ OnStatisticsPanelClose
    \/ NgOnDestroy

NextMap ==
    /\ MapStep
    /\ UNCHANGED <<centerPoint, differenceThrows, result>>
    /\ UNCHANGED <<oficiales, osmSchools, merged>>
    /\ UNCHANGED <<fetchVars, returned>>

SpecMap == InitMap /\ [][NextMap]_vars

(***************************************************************************)
(* Repeated calls of mergeSchools, createBufferZones, analyzeBufferZones   *)
(***************************************************************************)
\* calls made on one set of inputs
MaxCalls == 2

\* a school with a closed outline, a hospital and a police station
AgainItems == {<<"schools", 3>>, <<"hospitals", 1>>, <<"police", 2>>}

\* an official school at <<0, 0>> and one without vertices
AgainOficialChoices == {<<1, 1>>, <<3, 3>>}

\* an OSM outline near <<0, 0>> whose name normalizes like the first
\* official name, and a triangle with its own name
AgainOsmChoices == {<<2, 1>>, <<4, 2>>}

\* inputs of the buffer analysis vary; turf.difference throws for the same
\* cuts whenever the inputs are the same
InitAgainAnalysis ==
    /\ centerPoint \in Centers
    /\ config \in [totalRadius : {2, MaxRadius},
                   zoneWidth : {MaxWidth - 1, MaxWidth}]
    /\ \E items \in UNION {[1..n -> AgainItems] : n \in 0..MaxFeatures} :
          /\ schools = Placed(items, "schools")
          /\ layerFeatures = LayerMap(items, FALSE)
    /\ differenceThrows \in [2..numZonesOf(config) -> BOOLEAN]
    /\ oficiales = <<OficialSchool(1, <<1, 1>>)>>
    /\ osmSchools = <<OsmSchool(1, <<2, 1>>)>>

\* inputs of the merge vary
InitAgainMerge ==
    /\ \E n \in 0..MaxSchools : \E choices \in [1..n -> AgainOficialChoices] :
          oficiales = [k \in 1..n |-> OficialSchool(k, choices[k])]
    /\ \E n \in 0..MaxSchools : \E choices \in [1..n -> AgainOsmChoices] :
          osmSchools = [k \in 1..n |-> OsmSchool(k, choices[k])]
    /\ centerPoint = <<0, 0>>
    /\ config = [totalRadius |-> 5, zoneWidth |-> 1]
    /\ schools = <<>>
    /\ layerFeatures = <<>>
    /\ differenceThrows = [k \in 2..5 |-> FALSE]

InitAgain ==
    /\ InitAgainAnalysis \/ InitAgainMerge
    /\ NothingReturned
    /\ result = Null
    /\ merged = Null
    /\ MapConstructed
    /\ FetchIdle

\* variant: the call takes the first OSM school out of its input
CallMergeSchools_shift ==
    /\ Len(returned) < MaxCalls
    /\ returned' = Append(returned,
                          [operation |-> "mergeSchools",
                           value |-> mergeSchools(oficiales, osmSchools)])
    /\ osmSchools' = IF osmSchools = <<>> THEN <<>> ELSE Tail(osmSchools)
    /\ UNCHANGED <<oficiales, centerPoint, config, schools, layerFeatures>>

\* mergeSchools(oficiales, osmSchools): map, filter and spread build new
\* arrays and objects, the arguments are only read
CallMergeSchools ==
    /\ Len(returned) < MaxCalls
    /\ returned' = Append(returned,
                          [operation |-> "mergeSchools",
                           value |-> mergeSchools(oficiales, osmSchools)])
    /\ UNCHANGED <<oficiales, osmSchools, centerPoint, config, schools,
                   layerFeatures>>

\* createBufferZones(centerPoint, config)
CallCreateBufferZones ==
    /\ Len(returned) < MaxCalls
    /\ returned' = Append(returned,
                          [operation |-> "createBufferZones",
                           value |-> createBufferZones(centerPoint, config)])
    /\ UNCHANGED <<oficiales, osmSchools, centerPoint, config, schools,
                   layerFeatures>>

\* analyzeBufferZones(centerPoint, schools, layerFeatures, config):
\* prevZonePolygons is local to calculateStatistics
CallAnalyzeBufferZones ==
    /\ Len(returned) < MaxCalls
    /\ returned' = Append(returned,
                          [operation |-> "analyzeBufferZones",
                           value |-> analyzeBufferZones(centerPoint, schools,
                                                        layerFeatures, config,
                                                        differenceThrows)])
    /\ UNCHANGED <<oficiales, osmSchools, centerPoint, config, schools,
                   layerFeatures>>

NextAgain ==
    /\ \/ CallMergeSchools
       \/ CallCreateBufferZones
       \/ CallAnalyzeBufferZones
    /\ UNCHANGED <<differenceThrows, result, merged, mapVars, fetchVars>>

SpecAgain == InitAgain /\ [][NextAgain]_vars

(***************************************************************************)
(* Properties of createBufferZones                                         *)
(***************************************************************************)
Done == result # Null

\* the number of zones of the result with the given risk level
RiskCount(level) ==
    Cardinality({i \in 1..Len(result.zones) : result.zones[i].riskLevel = level})

\* C1: createBufferZones returns exactly ceil(totalRadius / zoneWidth) zones,
\* their ids are 1..numZones in that order, and radiusKm strictly increases
\* with the id (innermost zone first).
C1_ZoneCountAndOrder ==
    Done =>
        LET zones == result.zones
            n == Len(zones)
        IN  /\ (n - 1) * config.zoneWidth < config.totalRadius
            /\ config.totalRadius <= n * config.zoneWidth
            /\ \A i \in 1..n : zones[i].id = i
            /\ \A i \in 1..(n - 1) : zones[i].radiusKm < zones[i + 1].radiusKm

C1_Witness ==
    /\ Done
    /\ config = [totalRadius |-> 5, zoneWidth |-> 2]
    /\ Len(result.zones) = 3

\* C2: zone i has radiusKm = min(i * zoneWidth, totalRadius): no radius
\* exceeds totalRadius and the last one equals it, also when zoneWidth does
\* not divide totalRadius (width 3, total 5 gives radii 3, 5).
C2_RadiiClamped ==
    Done =>
        LET zones == result.zones
            n == Len(zones)
        IN  /\ \A i \in 1..n :
                  /\ zones[i].radiusKm <= config.totalRadius
                  /\ zones[i].radiusKm <= i * config.zoneWidth
                  /\ \/ zones[i].radiusKm = i * config.zoneWidth
                     \/ zones[i].radiusKm = config.totalRadius
            /\ zones[n].radiusKm = config.totalRadius
            /\ config = [totalRadius |-> 5, zoneWidth |-> 3]
                  => [i \in 1..n |-> zones[i].radiusKm] = <<3, 5>>

C2_Witness ==
    /\ Done
    /\ config = [totalRadius |-> 5, zoneWidth |-> 3]
    /\ result.zones[2].radiusKm = 5

\* C3: the risk level of zone i of n is high when i/n <= 0.6, medium when
\* 0.6 < i/n <= 0.8 and low above, the boundary ratios belonging to the
\* inner class; width 1, total 5 gives radii 1..5 with levels
\* high, high, high, medium, low.
C3_RiskByRankRatio ==
    Done =>
        LET zones == result.zones
            n == Len(zones)
        IN  /\ \A i \in 1..n :
                  /\ 5 * i <= 3 * n => zones[i].riskLevel = "high"
                  /\ 3 * n < 5 * i /\ 5 * i <= 4 * n
                        => zones[i].riskLevel = "medium"
                  /\ 4 * n < 5 * i => zones[i].riskLevel = "low"
            /\ config = [totalRadius |-> 5, zoneWidth |-> 1]
                  => /\ [i \in 1..n |-> zones[i].radiusKm] = <<1, 2, 3, 4, 5>>
                     /\ [i \in 1..n |-> zones[i].riskLevel]
                            = <<"high", "high", "high", "medium", "low">>

C3_Witness ==
    /\ Done
    /\ config = [totalRadius |-> 5, zoneWidth |-> 1]
    /\ result.zones[3].riskLevel = "high"
    /\ result.zones[4].riskLevel = "medium"

\* C4 as stated: for any config, 60% of the rings are high, 20% medium and
\* 20% low.
C4_SixtyTwentyTwenty ==
    Done =>
        LET n == Len(result.zones)
        IN  /\ 5 * RiskCount("high") = 3 * n
            /\ 5 * RiskCount("medium") = n
            /\ 5 * RiskCount("low") = n

\* C4 amended: of n rings floor(0.6 n) are high, floor(0.8 n) - floor(0.6 n)
\* medium and the rest low, which is 60% / 20% / 20% exactly when n is a
\* multiple of 5.
C4_RiskShares ==
    Done =>
        LET n == Len(result.zones)
        IN  /\ RiskCount("high") = (3 * n) \div 5
            /\ RiskCount("medium") = (4 * n) \div 5 - (3 * n) \div 5
            /\ RiskCount("low") = n - (4 * n) \div 5
            /\ n % 5 = 0 => C4_SixtyTwentyTwenty

C4_Witness ==
    /\ Done
    /\ Len(result.zones) = 5
    /\ RiskCount("high") = 3
    /\ RiskCount("medium") = 1
    /\ RiskCount("low") = 1

\* C5: fillOpacity of zone i of n equals 0.35 - (i / n) * 0.2 and strictly
\* decreases as i increases, whatever the risk levels of the zones.
C5_FillOpacityDecreasing ==
    Done =>
        LET zones == result.zones
            n == Len(zones)
        IN  /\ \A i \in 1..n :
                  FracEq(zones[i].fillOpacity, Frac(7 * n - 4 * i, 20 * n))
            /\ \A i \in 1..(n - 1) :
                  FracLess(zones[i + 1].fillOpacity, zones[i].fillOpacity)

C5_Witness ==
    /\ Done
    /\ Len(result.zones) >= 3
    /\ result.zones[1].riskLevel = result.zones[2].riskLevel
    /\ FracLess(result.zones[2].fillOpacity, result.zones[1].fillOpacity)

(***************************************************************************)
(* Properties of analyzeBufferZones                                        *)
(***************************************************************************)
Categories == {"schools", "hospitals", "police", "fireStations", "riskZones"}

\* the Map key of a category of the statistics
LayerOf(category) ==
    CASE category = "hospitals" -> "hospitals"
      [] category = "police" -> "police"
      [] category = "fireStations" -> "fire_stations"
      [] category = "riskZones" -> "risk_zones"

\* the representative points <<lat, lng>> of the features of a category:
\* the vertex mean of a school, the coordinates of a layer feature
RepresentativePoints(category) ==
    IF category = "schools"
    THEN [k \in 1..Len(schools) |-> getSchoolCenter(schools[k])]
    ELSE LET features == LayerGet(layerFeatures, LayerOf(category))
         IN  [k \in 1..Len(features) |->
                 <<Num(features[k].coordinates[1]),
                   Num(features[k].coordinates[2])>>]

\* the point lies within the given distance of the centre
WithinRadius(point, radius) ==
    LET dLat == FracSub(point[1], Num(centerPoint[1]))
        dLng == FracSub(point[2], Num(centerPoint[2]))
    IN  FracLeq(FracAdd(FracMul(dLat, dLat), FracMul(dLng, dLng)),
                Num(radius * radius))

\* inside the full buffer of zone k of the result
InBuffer(point, k) == WithinRadius(point, result.zones[k].radiusKm)

\* C6: analyzeBufferZones returns one statistics entry per zone, in the order
\* of the zones, and entry k carries id, radiusKm and riskLevel of zone k.
C6_StatisticsFollowZones ==
    Done =>
        /\ Len(result.statistics) = Len(result.zones)
        /\ \A k \in 1..Len(result.zones) :
              /\ result.statistics[k].zoneId = result.zones[k].id
              /\ result.statistics[k].radiusKm = result.zones[k].radiusKm
              /\ result.statistics[k].riskLevel = result.zones[k].riskLevel

C6_Witness ==
    /\ Done
    /\ Len(result.statistics) = 3
    /\ result.statistics[3].zoneId = 3
    /\ result.statistics[1].radiusKm < result.statistics[3].radiusKm

\* C7: in every statistics entry, total is the sum of the five counts.
C7_TotalIsSum ==
    Done =>
        \A k \in 1..Len(result.statistics) :
            LET e == result.statistics[k]
            IN  e.total = e.schools + e.hospitals + e.police
                              + e.fireStations + e.riskZones

C7_Witness ==
    /\ Done
    /\ \E k \in 1..Len(result.statistics) :
          /\ result.statistics[k].riskZones = 1
          /\ result.statistics[k].schools = 1
          /\ result.statistics[k].total = 2

\* C8: zone 1 counts the features inside its whole buffer; when the
\* difference for zone i > 1 succeeds, zone i counts exactly the features
\* inside buffer i and not inside buffer i-1 (the full buffer of the
\* preceding zone is subtracted, not its ring).
C8_RingIsBufferMinusPrevious ==
    Done =>
        \A category \in Categories :
            LET points == RepresentativePoints(category)
            IN  \A k \in 1..Len(result.zones) :
                    LET inRing(p) ==
                            /\ InBuffer(p, k)
                            /\ k > 1 => ~InBuffer(p, k - 1)
                    IN  k = 1 \/ ~differenceThrows[k]
                            => result.statistics[k][category]
                                   = Cardinality({m \in 1..Len(points) : inRing(points[m])})

\* a feature of zone 2 and a feature of zone 3, both rings cut successfully
C8_Witness ==
    /\ Done
    /\ Len(result.zones) >= 3
    /\ ~differenceThrows[2]
    /\ ~differenceThrows[3]
    /\ result.statistics[1].total = 0
    /\ result.statistics[2].total = 1
    /\ result.statistics[3].total = 1

\* C9: within each category a feature is counted in one zone at most, the
\* first zone, scanning outward, whose polygon contains it, also when a
\* ring difference fails and the fallback ring is used.
C9_FirstMatchOnly ==
    Done =>
        \A category \in Categories :
            LET points == RepresentativePoints(category)
            IN  \A k \in 1..Len(result.zones) :
                    LET firstMatch(p) ==
                            /\ InBuffer(p, k)
                            /\ \A j \in 1..(k - 1) : ~InBuffer(p, j)
                    IN  result.statistics[k][category]
                            = Cardinality({m \in 1..Len(points) : firstMatch(points[m])})

\* C10: for every category the per-zone counts add up to at most the
\* category total of totalElements, and to exactly the total when every
\* feature of the category lies within the outermost buffer.
C10_ZoneSumWithinTotal ==
    Done =>
        \A category \in Categories :
            LET points == RepresentativePoints(category)
                n == Len(result.zones)
                sum == SumSeq([k \in 1..n |-> result.statistics[k][category]])
                inOutermost(p) == InBuffer(p, n)
            IN  /\ sum <= result.totalElements[category]
                /\ (\A m \in 1..Len(points) : inOutermost(points[m]))
                      => sum = result.totalElements[category]

\* the point is the centre point
AtCenter(point) ==
    /\ FracEq(point[1], Num(centerPoint[1]))
    /\ FracEq(point[2], Num(centerPoint[2]))

\* C11: a single feature whose representative point is exactly the centre
\* is counted in zone 1 and in no other zone, for every config.
C11_CenterFeatureInZoneOneOnly ==
    Done =>
        \A category \in Categories :
            LET points == RepresentativePoints(category)
                hasPoint ==
                    category = "schools"
                        => Len(schools[1].polygon.coordinates) > 0
            IN  Len(points) = 1 /\ hasPoint /\ AtCenter(points[1])
                    => /\ result.statistics[1][category] = 1
                       /\ \A k \in 2..Len(result.zones) :
                              result.statistics[k][category] = 0

\* the length of the input collection of a category, 0 when the Map has no
\* entry for it
InputLength(category) ==
    IF category = "schools" THEN Len(schools)
    ELSE IF LayerOf(category) \in DOMAIN layerFeatures
         THEN Len(layerFeatures[LayerOf(category)])
         ELSE 0

\* the number of features of a category within the outermost buffer
InOutermostBuffer(category) ==
    LET points == RepresentativePoints(category)
    IN  Cardinality({m \in 1..Len(points) :
                        InBuffer(points[m], Len(result.zones))})

\* C12: totalElements of a category is the length of its input collection
\* (0 for a category absent from the Map) whatever the zone membership: a
\* feature outside the outermost buffer is in no per-zone count but in the
\* total, and an empty or missing collection gives zero in every zone.
C12_TotalsAreInputLengths ==
    Done =>
        \A category \in Categories :
            /\ result.totalElements[category] = InputLength(category)
            /\ \E inside \in {InOutermostBuffer(category)} :
                  \A k \in 1..Len(result.zones) :
                      result.statistics[k][category] <= inside

\* a hospital outside every zone is in the total only; police has no entry
C12_Witness ==
    /\ Done
    /\ "police" \notin DOMAIN layerFeatures
    /\ result.totalElements.police = 0
    /\ result.totalElements.hospitals = 1
    /\ InOutermostBuffer("hospitals") = 0
    /\ \A k \in 1..Len(result.zones) : result.statistics[k].hospitals = 0

\* C13: when turf.difference fails for zone i the analysis still returns its
\* result, zone i counts the features of its own full buffer, and every
\* other zone counts, as when nothing fails, the features of its buffer that
\* are outside the buffer of the zone before it.
C13_FallbackToOwnBuffer ==
    Done =>
        LET n == Len(result.zones)
        IN  /\ Len(result.statistics) = n
            /\ \A category \in Categories :
                  \E points \in {RepresentativePoints(category)} :
                      \A k \in 1..n :
                          result.statistics[k][category]
                              = Cardinality(
                                    {m \in 1..Len(points) :
                                        /\ InBuffer(points[m], k)
                                        /\ \/ k = 1
                                           \/ differenceThrows[k]
                                           \/ ~InBuffer(points[m], k - 1)})

\* the difference of zone 2 fails: zone 2 counts its feature and the one of
\* zone 1 again, zone 3 is cut successfully
C13_Witness ==
    /\ Done
    /\ Len(result.zones) >= 3
    /\ differenceThrows[2]
    /\ ~differenceThrows[3]
    /\ result.statistics[1].total = 1
    /\ result.statistics[2].total = 2
    /\ result.statistics[3].total = 0

\* the schools that have at least one vertex
WithVertices ==
    {m \in 1..Len(schools) : Len(schools[m].polygon.coordinates) > 0}

\* C14: a school whose polygon has no vertices is left out of the spatial
\* tests: for every centre and config no zone counts it, while it is
\* counted in the category total.
C14_NoVerticesNotCounted ==
    Done =>
        /\ result.totalElements.schools = Len(schools)
        /\ \A k \in 1..Len(result.zones) :
              result.statistics[k].schools
                  <= Cardinality({m \in WithVertices :
                                     InBuffer(getSchoolCenter(schools[m]), k)})

(***************************************************************************)
(* Properties of mergeSchools                                              *)
(***************************************************************************)
MergeDone == merged # Null

\* the vertices of a school
Vertices(school) == school.polygon.coordinates

\* the vertex means of two schools are less than 0.002 degrees apart, in
\* whole numbers: both have vertices and, with sums s, t over n, m vertices,
\* (s1 m - t1 n)^2 + (s2 m - t2 n)^2 < (20 n m)^2
Near(a, b) ==
    LET n == Len(Vertices(a))
        m == Len(Vertices(b))
        s(axis) == SumSeq([k \in 1..n |-> Vertices(a)[k][axis]])
        t(axis) == SumSeq([k \in 1..m |-> Vertices(b)[k][axis]])
        d(axis) == s(axis) * m - t(axis) * n
    IN  /\ n > 0
        /\ m > 0
        /\ d(1) * d(1) + d(2) * d(2) < 400 * n * n * m * m

\* the OSM schools near an official school, and the first of them (0: none)
NearOsm(i) == {j \in 1..Len(osmSchools) : Near(oficiales[i], osmSchools[j])}

FirstNearOsm(i) ==
    IF NearOsm(i) = {} THEN 0
    ELSE CHOOSE j \in NearOsm(i) : \A h \in NearOsm(i) : j <= h

\* C15: each official school is matched with the first OSM school, in list
\* order, whose vertex mean is strictly less than 0.002 degrees from its own;
\* it takes that school's polygon and the source 'hybrid' exactly when that
\* first match exists and has more than 5 vertices, and is unchanged
\* otherwise, whatever the later OSM schools are.
C15_FirstMatchDecides ==
    MergeDone =>
        /\ Len(merged.schools) >= Len(oficiales)
        /\ \A i \in 1..Len(oficiales) :
              LET j == FirstNearOsm(i)
              IN  IF j # 0 /\ Len(Vertices(osmSchools[j])) > 5
                  THEN merged.schools[i] =
                           [oficiales[i] EXCEPT
                               !.polygon = osmSchools[j].polygon,
                               !.additionalData.source = "hybrid"]
                  ELSE merged.schools[i] = oficiales[i]

\* the first OSM school near the official school has too few vertices, a
\* later one near it has enough, and the official school is unchanged
C15_Witness ==
    /\ MergeDone
    /\ Len(oficiales) >= 1
    /\ FirstNearOsm(1) # 0
    /\ Len(Vertices(osmSchools[FirstNearOsm(1)])) <= 5
    /\ \E j \in NearOsm(1) : Len(Vertices(osmSchools[j])) > 5
    /\ merged.schools[1] = oficiales[1]

\* the normalized form of each name of the model, written out
NormalName(name) ==
    CASE name = <<"A", "b">> -> <<"a", "b">>
      [] name = <<"a_acute", "space", "B">> -> <<"a", "b">>
      [] name = <<"c", "1">> -> <<"c", "1">>
      [] name = <<"d">> -> <<"d">>

\* the OSM schools whose normalized name is the name of no official school
Unnamed ==
    {j \in 1..Len(osmSchools) :
        \A i \in 1..Len(oficiales) :
            NormalName(osmSchools[j].name) # NormalName(oficiales[i].name)}

\* the records of the output after the official schools
Appended == SubSeq(merged.schools, Len(oficiales) + 1, Len(merged.schools))

\* C16: an OSM school is appended to the output exactly when its normalized
\* name (lower case, no diacritics, letters and digits only) is the
\* normalized name of no official school, also when its polygon was given to
\* an official school in step 1.
C16_AppendedIffNameUnknown ==
    MergeDone =>
        \A j \in 1..Len(osmSchools) :
            (\E k \in 1..Len(Appended) : Appended[k] = osmSchools[j])
                <=> j \in Unnamed

\* an OSM school gave its polygon to an official school and is appended too
C16_Witness ==
    /\ MergeDone
    /\ \E i \in 1..Len(oficiales), j \in 1..Len(osmSchools) :
          /\ Len(merged.schools) > Len(oficiales)
          /\ merged.schools[i].additionalData.source = "hybrid"
          /\ merged.schools[i].polygon = osmSchools[j].polygon
          /\ FirstNearOsm(i) = j
          /\ \E k \in 1..Len(Appended) : Appended[k] = osmSchools[j]

Ids(list) == [k \in 1..Len(list) |-> list[k].id]

\* C17: the output lists the official schools in their order, then the
\* appended OSM schools in their order; its length is the number of official
\* schools plus the number of appended OSM schools, and it is 2 for one
\* official and one OSM school that match neither by name nor by position.
C17_OficialesThenAppended ==
    MergeDone =>
        /\ Ids(merged.schools)
               = Ids(oficiales)
                     \o Ids(SelectSeq(osmSchools,
                                      LAMBDA osm : \E j \in Unnamed : osmSchools[j] = osm))
        /\ Len(merged.schools) = Len(oficiales) + Cardinality(Unnamed)
        /\ (/\ Len(oficiales) = 1
            /\ Len(osmSchools) = 1
            /\ ~Near(oficiales[1], osmSchools[1])
            /\ Unnamed = {1})
               => Len(merged.schools) = 2

\* two official schools, the first of them enriched, then two OSM schools
C17_Witness ==
    /\ MergeDone
    /\ Len(oficiales) = 2
    /\ Len(osmSchools) = 2
    /\ Len(merged.schools) = 4
    /\ merged.schools[1].additionalData.source = "hybrid"
    /\ merged.schools[2] = oficiales[2]
    /\ merged.schools[3] = osmSchools[1]
    /\ merged.schools[4] = osmSchools[2]

\* the vertex means of two schools with vertices are exactly dist units apart
ApartBy(a, b, dist) ==
    LET n == Len(Vertices(a))
        m == Len(Vertices(b))
        s(axis) == SumSeq([k \in 1..n |-> Vertices(a)[k][axis]])
        t(axis) == SumSeq([k \in 1..m |-> Vertices(b)[k][axis]])
        d(axis) == s(axis) * m - t(axis) * n
    IN  /\ n > 0
        /\ m > 0
        /\ d(1) * d(1) + d(2) * d(2) = dist * dist * n * n * m * m

\* one official and one OSM school, vertex means 0.001 degrees apart, the
\* OSM polygon of 6 vertices
OnePairNearby ==
    /\ Len(oficiales) = 1
    /\ Len(osmSchools) = 1
    /\ Len(Vertices(osmSchools[1])) = 6
    /\ ApartBy(oficiales[1], osmSchools[1], 10)

\* C18 as stated: for one official and one OSM school 0.001 degrees apart,
\* the OSM polygon of 6 vertices, the output is exactly one record, with the
\* OSM polygon and the source 'hybrid'.
C18_ExactlyOneHybrid ==
    MergeDone /\ OnePairNearby =>
        /\ Len(merged.schools) = 1
        /\ merged.schools[1].polygon = osmSchools[1].polygon
        /\ merged.schools[1].additionalData.source = "hybrid"

\* C18 amended: in that case the first record is the official school with
\* the OSM polygon and the source 'hybrid'; it is the only record when the
\* normalized names are equal, and it is followed by the OSM school itself
\* when they differ.
C18_OneRecordWhenNamesCollide ==
    MergeDone /\ OnePairNearby =>
        /\ Len(merged.schools) >= 1
        /\ merged.schools[1] =
               [oficiales[1] EXCEPT !.polygon = osmSchools[1].polygon,
                                    !.additionalData.source = "hybrid"]
        /\ IF NormalName(oficiales[1].name) = NormalName(osmSchools[1].name)
           THEN Len(merged.schools) = 1
           ELSE /\ Len(merged.schools) = 2
                /\ merged.schools[2] = osmSchools[1]

C18_Witness ==
    /\ MergeDone
    /\ OnePairNearby
    /\ NormalName(oficiales[1].name) = NormalName(osmSchools[1].name)
    /\ Len(merged.schools) = 1
    /\ merged.schools[1].polygon.coordinates = Outline(0)
    /\ merged.schools[1].additionalData.source = "hybrid"

\* one official and one OSM school with the same normalized name and no
\* match by position
OnePairSameNameFar ==
    /\ Len(oficiales) = 1
    /\ Len(osmSchools) = 1
    /\ NormalName(oficiales[1].name) = NormalName(osmSchools[1].name)
    /\ ~Near(oficiales[1], osmSchools[1])

\* C19: for one official and one OSM school with the same normalized name
\* whose vertex means are not within the threshold, the output is the
\* unchanged official school alone.
C19_NameCollisionDrops ==
    MergeDone /\ OnePairSameNameFar => merged.schools = <<oficiales[1]>>

\* the names differ as written, and both schools have vertices
C19_Witness ==
    /\ MergeDone
    /\ OnePairSameNameFar
    /\ oficiales[1].name # osmSchools[1].name
    /\ Len(Vertices(oficiales[1])) > 0
    /\ Len(Vertices(osmSchools[1])) > 0
    /\ merged.schools = <<oficiales[1]>>

\* C20: mergeSchools returns for every pair of lists, also empty ones and
\* schools without vertices; the output starts with one record per official
\* school, with its id and name, and is at most the official schools
\* followed by all OSM schools.
C20_AlwaysOneRecordPerOficial ==
    MergeDone =>
        /\ Len(merged.schools) >= Len(oficiales)
        /\ Len(merged.schools) <= Len(oficiales) + Len(osmSchools)
        /\ \A i \in 1..Len(oficiales) :
              /\ merged.schools[i].id = oficiales[i].id
              /\ merged.schools[i].name = oficiales[i].name
        /\ \A k \in 1..Len(Appended) :
              \E j \in 1..Len(osmSchools) : Appended[k] = osmSchools[j]

\* schools without vertices on both sides; every official school unchanged
\* and every OSM school appended
C20_Witness ==
    /\ MergeDone
    /\ \E i \in 1..Len(oficiales) : Vertices(oficiales[i]) = <<>>
    /\ \E j \in 1..Len(osmSchools) : Vertices(osmSchools[j]) = <<>>
    /\ merged.schools = oficiales \o osmSchools

(***************************************************************************)
(* Properties of getZoneForPoint and of the risk levels                    *)
(***************************************************************************)
\* a sequence back to front, and turned by r places
Reversed(s) == [k \in 1..Len(s) |-> s[Len(s) + 1 - k]]

Rotated(s, r) == [k \in 1..Len(s) |-> s[((k - 1 + r) % Len(s)) + 1]]

Reorderings(s) ==
    {Reversed(s)} \cup {Rotated(s, r) : r \in 0..(Len(s) - 1)}

NoDifferenceThrows == \A k \in DOMAIN differenceThrows : ~differenceThrows[k]

\* C29: when every ring is cut, a zone counts in each category exactly the
\* features for whose point getZoneForPoint returns that zone, so null is
\* returned exactly for the points counted nowhere; this holds for the zones
\* array in any of the orders tried (reversed, rotated).
C29_ZoneForPointAgrees ==
    Done /\ NoDifferenceThrows =>
        \A category \in Categories :
            \E points \in {RepresentativePoints(category)} :
                \A order \in Reorderings(result.zones) :
                    \E found \in {[m \in 1..Len(points) |->
                                      getZoneForPoint(points[m], order)]} :
                        \A k \in 1..Len(result.zones) :
                            result.statistics[k][category]
                                = Cardinality({m \in 1..Len(points) :
                                                  /\ found[m] # Null
                                                  /\ found[m].id = k})

\* a school in a zone that is not the innermost, found in the reversed
\* array, and a hospital for which null is returned
C29_Witness ==
    /\ Done
    /\ NoDifferenceThrows
    /\ Len(result.zones) >= 2
    /\ Len(schools) = 1
    /\ getZoneForPoint(getSchoolCenter(schools[1]), Reversed(result.zones)) # Null
    /\ getZoneForPoint(getSchoolCenter(schools[1]), Reversed(result.zones)).id = 2
    /\ result.statistics[2].schools = 1
    /\ result.totalElements.hospitals = 1
    /\ getZoneForPoint(RepresentativePoints("hospitals")[1], result.zones) = Null

RiskRank(riskLevel) ==
    CASE riskLevel = "high" -> 3
      [] riskLevel = "medium" -> 2
      [] riskLevel = "low" -> 1

\* C30: the risk level never rises from a zone to the next one outward, the
\* outermost zone is low, and a single zone is low.
C30_RiskFallsOutward ==
    Done =>
        LET zones == result.zones
            n == Len(zones)
        IN  /\ \A i \in 1..n : \A j \in 1..n :
                  zones[i].id < zones[j].id
                      => RiskRank(zones[i].riskLevel) >= RiskRank(zones[j].riskLevel)
            /\ zones[n].riskLevel = "low"
            /\ n = 1 => \A i \in 1..n : zones[i].riskLevel # "high"

\* one zone only, and it is low
C30_Witness ==
    /\ Done
    /\ Len(result.zones) = 1
    /\ config.totalRadius < config.zoneWidth
    /\ result.zones[1].riskLevel = "low"

(***************************************************************************)
(* Properties of OverpassService                                           *)
(***************************************************************************)
FetchDone == fetchState = "done"

\* the vertices of a ring, as a set
PointsOf(coordinates) == {coordinates[k] : k \in 1..Len(coordinates)}

\* C22: every school of a finished schools fetch has a closed ring, and no
\* school has fewer than 3 distinct boundary points.
C22_ClosedRingsOfThreePoints ==
    FetchDone /\ fetchKind = "schools" =>
        \A k \in 1..Len(fetched.value) :
            LET coordinates == fetched.value[k].polygon.coordinates
            IN  /\ Len(coordinates) >= 1
                /\ coordinates[1] = coordinates[Len(coordinates)]
                /\ Cardinality(PointsOf(coordinates)) >= 3

\* the number of requests sent to the server at index
Contacts(index) ==
    Cardinality({k \in 1..Len(contacted) : contacted[k] = index})

\* the requests went to the servers in list order from index 0, at most
\* retryCount + 1 to each, to a later server only after that many to the one
\* before; a finished fetch has a value: the transformed answer of the
\* server contacted last, or the empty list after every server failed
FetchInOrder ==
    /\ \A k \in 1..Len(contacted) :
          /\ contacted[k] \in 0..(Len(overpassServers) - 1)
          /\ k = 1 => contacted[k] = 0
          /\ k > 1 => \/ contacted[k] = contacted[k - 1]
                      \/ /\ contacted[k] = contacted[k - 1] + 1
                         /\ Cardinality({h \in 1..(k - 1) :
                                            contacted[h] = contacted[k - 1]}) = 3
    /\ \A index \in 0..(Len(overpassServers) - 1) : Contacts(index) <= 3
    /\ IF FetchDone
       THEN /\ fetched # Null
            /\ \/ /\ fetched.server = -1
                  /\ fetched.value = <<>>
                  /\ \A index \in 0..(Len(overpassServers) - 1) : Contacts(index) = 3
               \/ /\ fetched.server >= 0
                  /\ Len(contacted) >= 1
                  /\ fetched.server = contacted[Len(contacted)]
       ELSE fetched = Null

C27_LoadingWhileOutstanding == pending # {} => isLoading

\* C25: layerFeatures has an entry for a layer only while the layer is
\* enabled, whatever the order in which responses arrive
C25_EntryOnlyWhileEnabled == \A type \in DOMAIN layerFeatures : enabled[type]

\* the police features have been loaded and the layer is enabled
PoliceLoaded ==
    /\ enabled["police"]
    /\ "police" \in DOMAIN layerFeatures
    /\ layerFeatures["police"] # <<>>

\* C24: while the police layer stays enabled, a click for an analysis and
\* the completion of the reload it starts keep the loaded police features
C24_PoliceFeaturesKept ==
    [][PoliceLoaded /\ enabled'["police"]
         /\ lastEvent' \in {"mapClick", "analysisResponse"}
       => /\ "police" \in DOMAIN layerFeatures'
          /\ layerFeatures'["police"] = layerFeatures["police"]]_vars

\* C28: there is an analysis result only while there is a centre; without a
\* centre the result is null and the panel hidden, also after a response
\* that was requested before the centre was cleared
C28_ResultNeedsCenter ==
    /\ bufferAnalysisResult # Null => bufferCenter # NoPoint
    /\ bufferCenter = NoPoint =>
          bufferAnalysisResult = Null /\ ~showStatisticsPanel

\* the layers of an analysis click arrive after the centre was cleared
C28_Witness ==
    /\ lastEvent = "analysisResponse"
    /\ bufferCenter = NoPoint
    /\ bufferAnalysisResult = Null
    /\ ~showStatisticsPanel
    /\ "hospitals" \in DOMAIN layerFeatures
    /\ layerFeatures["hospitals"] # <<>>

\* the result of the step is the analysis of the fields after the step
Recomputed ==
    bufferAnalysisResult' =
        analyzeBufferZones(bufferCenter', schools', layerFeatures', config',
                           NoThrows(config'))

\* C23 as stated: with a centre set, the result is the analysis of the
\* current centre, config, schools and layerFeatures after a click, a
\* configuration change and the arrival of a layer
C23_RecomputedOnRequest ==
    [][bufferCenter' # NoPoint
         /\ lastEvent' \in {"mapClick", "onBufferConfigChange", "layerResponse"}
       => Recomputed]_vars

\* C23: with a centre set, the result is the analysis of the current centre,
\* config, schools and layerFeatures after a configuration change, after the
\* arrival of a layer, after a click that starts no request, and after the
\* arrival of the layers a click has requested
C23_RecomputedWhenLayersArrive ==
    [][bufferCenter' # NoPoint
         /\ \/ lastEvent' \in {"onBufferConfigChange", "layerResponse",
                               "analysisResponse"}
            \/ lastEvent' = "mapClick" /\ pending' = pending
       => Recomputed]_vars

\* the layers requested by a click have arrived and are counted
C23_Witness ==
    /\ lastEvent = "analysisResponse"
    /\ bufferCenter # NoPoint
    /\ bufferAnalysisResult # Null
    /\ "hospitals" \in DOMAIN layerFeatures
    /\ layerFeatures["hospitals"] # <<>>
    /\ bufferAnalysisResult.totalElements.hospitals = 1

(***************************************************************************)
(* Properties of repeated calls                                            *)
(***************************************************************************)
\* the calls of one operation have returned equal values
SameOutputs ==
    \A i, j \in 1..Len(returned) :
        returned[i].operation = returned[j].operation
            => returned[i].value = returned[j].value

\* the arguments are after the step what they were before
InputsKept ==
    <<oficiales, osmSchools, centerPoint, config, schools, layerFeatures>>'
        = <<oficiales, osmSchools, centerPoint, config, schools, layerFeatures>>

====
